---- MODULE Spec2Model ----
(***************************************************************************)
(* Model of schleising/PythonTools:                                        *)
(*   TkUtils/dialogs.py  DialogBase, KeyValDialog, TreeViewDialog          *)
(*   Utils/Timer.py      Timer (context manager)                           *)
(*                                                                         *)
(* Python values are modelled as follows.                                  *)
(*   None / a given optional argument : <<>> / <<v>>                       *)
(*   an insertion-ordered dict        : a sequence of [key, val] records   *)
(*                                      with pairwise different keys       *)
(*   a Tk toplevel                    : a record of the variable tk        *)
(*   a ttk.Treeview                   : items (iid -> row) and children    *)
(*                                      (iid -> sequence of iids), iid 0   *)
(*                                      being Tk's root item ''            *)
(***************************************************************************)
EXTENDS Integers, Sequences, FiniteSets, TLC

VARIABLES
    tk,         \* the toplevel windows: the caller's root and the dialog's own
    phase,      \* "none" (no dialog yet), "built", "destroyed"
    kind,       \* "none", "KeyVal", "Tree": the concrete class constructed
    standalone, \* self.standalone
    parent,     \* self.parent: the name of a window of tk ("" before __init__)
    frame,      \* the dialog's ttk.Frame: its grid cells and its configuration
    treeview,   \* self.treeview
    mainloop,   \* the window whose event loop is running ("" when none)
    lastCall,   \* the most recent call on the dialog: arguments and outcome
    timers,     \* the Timer instances: taskString, startTime, position
    stack,      \* the with-scopes entered and not yet left, innermost last
    clock,      \* time.time(), in milliseconds
    stdout,     \* the lines printed so far
    exc,        \* the exception unwinding through the with-scopes (<<>>: none)
    outcome     \* what reached the caller of the outermost scope

dialogVars == <<tk, phase, kind, standalone, parent, frame, treeview, mainloop, lastCall>>
timerVars == <<timers, stack, clock, stdout, exc, outcome>>
vars == <<tk, phase, kind, standalone, parent, frame, treeview, mainloop, lastCall,
          timers, stack, clock, stdout, exc, outcome>>

----------------------------------------------------------------------------
(* Bounds of the inputs                                                    *)

\* the longest LabelValueMap handed to KeyValDialog
MaxLabels == 2

\* the largest number of top-level entries of a Hierarchy
MaxOuter == 2

\* the largest number of Timer scopes a run opens
MaxTimers == 2

\* the number of times the clock is seen to move on
MaxTicks == 3

None == <<>>

Some(v) == <<v>>

Labels == {"One", "Two", "Three"}

Values == {"First", "Second"}

OuterKeys == {"One", "Two", "Three"}

\* the inner mappings a Hierarchy entry may carry: the empty one, and one of two
\* entries whose insertion order is not the alphabetical one
InnerMaps ==
    { <<>>,
      <<[key |-> "SecondItem", val |-> "2nd"], [key |-> "FirstItem", val |-> "1st"]>> }

Rows == {0, 1}

Columns == {0, 1}

TaskStrings == {"Waiting", "Loading"}

Exceptions == {"KeyError", "OSError"}

UniqueKeys(m) == \A i, j \in 1..Len(m) : m[i].key = m[j].key => i = j

SeqsUpTo(S, n) == UNION { [1..k -> S] : k \in 0..n }

LabelValueMaps ==
    { m \in SeqsUpTo([key : Labels, val : Values], MaxLabels) : UniqueKeys(m) }

Hierarchies ==
    { h \in SeqsUpTo([key : OuterKeys, val : InnerMaps], MaxOuter) : UniqueKeys(h) }

HeadingList == <<"Keys", "Values">>

----------------------------------------------------------------------------
(* The host toolkit: grid configuration and the Treeview widget            *)

\* w.rowconfigure(index, **opts) / w.columnconfigure(index, **opts): the options
\* given are set, the others keep their value (Tk's defaults are 0)
Configure(conf, index, opts) ==
    [i \in DOMAIN conf \cup {index} |->
        IF i = index
        THEN opts @@ (IF index \in DOMAIN conf THEN conf[index]
                      ELSE [weight |-> 0, minsize |-> 0])
        ELSE conf[i]]

NoWindow ==
    [exists |-> FALSE, alive |-> FALSE, title |-> "", minsize |-> <<0, 0>>,
     grid |-> {}, rowconf |-> <<>>, colconf |-> <<>>]

\* tk.Tk()
NewTk ==
    [exists |-> TRUE, alive |-> TRUE, title |-> "tk", minsize |-> <<1, 1>>,
     grid |-> {}, rowconf |-> <<>>, colconf |-> <<>>]

\* the caller's own window, holding one widget of the caller's
CallerRoot ==
    [NewTk EXCEPT !.grid = {[widget |-> "other", row |-> 2, column |-> 0,
                             padx |-> 0, pady |-> 0]}]

NoFrame == [cells |-> {}, rowconf |-> <<>>, colconf |-> <<>>, packed |-> <<>>]

NoTreeview ==
    [exists |-> FALSE, columns |-> <<>>, headings |-> <<>>,
     items |-> <<>>, children |-> (0 :> <<>>)]

\* treeview.get_children(item)
GetChildren(tv, item) == tv.children[item]

RECURSIVE Subtree(_, _)
\* an item and all of its descendants
Subtree(tv, item) ==
    {item} \cup UNION { Subtree(tv, tv.children[item][k]) : k \in 1..Len(tv.children[item]) }

\* a faulty variant of Delete: the rows are left in place
DeleteNothing(tv, itemList) == tv

\* treeview.delete(*itemList): each item goes with all of its descendants
Delete(tv, itemList) ==
    LET gone == UNION { Subtree(tv, itemList[k]) : k \in 1..Len(itemList) }
        kept == DOMAIN tv.items \ gone
    IN  [tv EXCEPT
            !.items = [i \in kept |-> tv.items[i]],
            !.children = [p \in kept \cup {0} |->
                            SelectSeq(tv.children[p], LAMBDA c : c \notin gone)]]

\* the iid Tk generates for insert(..., iid=None): one no item carries
NewIid(tv) ==
    CHOOSE n \in 1..(Cardinality(DOMAIN tv.items) + 1) :
        /\ n \notin DOMAIN tv.items
        /\ \A m \in 1..(n - 1) : m \in DOMAIN tv.items

\* treeview.insert(parentItem, tk.END, None, text=, open=, values=)
Insert(tv, parentItem, text, open, values) ==
    LET iid == NewIid(tv)
    IN  [tv EXCEPT
            !.items = (iid :> [parent |-> parentItem, text |-> text,
                               open |-> open, values |-> values]) @@ tv.items,
            !.children = (iid :> <<>>) @@
                         [tv.children EXCEPT ![parentItem] = Append(@, iid)]]

----------------------------------------------------------------------------
(* TkUtils/dialogs.py                                                      *)

\* a faulty variant of IsEmbedded: the arguments are tested for truth, so row 0 and
\* column 0 count as omitted
IsEmbeddedTruthy(p, row, column) ==
    /\ p # None
    /\ row \notin {None, Some(0)}
    /\ column \notin {None, Some(0)}

\* DialogBase.__init__: parent is not None and row is not None and column is not None
IsEmbedded(p, row, column) == p # None /\ row # None /\ column # None

\* DialogBase.__init__, up to the call of body(): the windows after placement
PlaceFrame(tkv, p, row, column, title) ==
    IF IsEmbedded(p, row, column)
    THEN [tkv EXCEPT ![p[1]] =
            [@ EXCEPT
                !.grid = @ \cup {[widget |-> "dialog", row |-> row[1], column |-> column[1],
                                  padx |-> 5, pady |-> 5]},
                !.colconf = Configure(@, column[1], [weight |-> 1]),
                !.rowconf = Configure(@, row[1], [weight |-> 1])]]
    ELSE [tkv EXCEPT !["win"] =
            [NewTk EXCEPT
                !.title = title,
                !.minsize = <<1024, 768>>,
                !.grid = {[widget |-> "dialog", row |-> 0, column |-> 0,
                           padx |-> 10, pady |-> 3]},
                !.colconf = Configure(<<>>, 0, [weight |-> 1]),
                !.rowconf = Configure(<<>>, 0, [weight |-> 1])]]

\* self.parent after DialogBase.__init__
ParentOf(p, row, column) == IF IsEmbedded(p, row, column) THEN p[1] ELSE "win"

\* a faulty variant of HasCloseButton: the button is created in both modes
HasCloseButtonAlways(isStandalone) == TRUE

\* "if self.standalone:" in both body() methods
HasCloseButton(isStandalone) == isStandalone

\* a faulty variant of CloseRow: the button lands on the last data row
CloseRowLast(labels) == Len(labels) - 1

\* KeyValDialog.body: row=len(self.labels)
CloseRow(labels) == Len(labels)

CloseButton(row, column) ==
    [widget |-> "Button", row |-> row, column |-> column, text |-> "Close",
     command |-> "onClose", sticky |-> "e"]

\* KeyValDialog.body: enumerate() counts from 0, the sequence from 1
KeyValBody(labels, isStandalone) ==
    LET n == Len(labels)
        left == { [widget |-> "Label", row |-> count - 1, column |-> 0,
                   text |-> labels[count].key, command |-> "", sticky |-> "w"]
                  : count \in 1..n }
        right == { [widget |-> "Label", row |-> count - 1, column |-> 1,
                    text |-> labels[count].val, command |-> "", sticky |-> "w"]
                   : count \in 1..n }
        rows == [count \in 0..(n - 1) |-> [weight |-> 1, minsize |-> 26]]
        cols == Configure(Configure(<<>>, 0, [weight |-> 0, minsize |-> 150]),
                          1, [weight |-> 1, minsize |-> 150])
    IN  IF HasCloseButton(isStandalone)
        THEN [cells |-> left \cup right \cup {CloseButton(CloseRow(labels), 1)},
              rowconf |-> Configure(rows, CloseRow(labels), [weight |-> 1, minsize |-> 26]),
              colconf |-> cols,
              packed |-> <<>>]
        ELSE [cells |-> left \cup right, rowconf |-> rows, colconf |-> cols,
              packed |-> <<>>]

\* TreeViewDialog.body: the Treeview and its scrollbar, packed in the frame
TreeBodyFrame == [NoFrame EXCEPT !.packed = <<"scrollbar", "treeview">>]

\* TreeViewDialog.body: columns=self.headings[1:], heading '#n' for each heading
TreeBodyTreeview(headings) ==
    [NoTreeview EXCEPT
        !.exists = TRUE,
        !.columns = Tail(headings),
        !.headings = [colCount \in 0..(Len(headings) - 1) |-> headings[colCount + 1]]]

\* TreeViewDialog.body: the Close button goes into self.parent, below the frame
TreeBodyWindow(win, isStandalone) ==
    IF HasCloseButton(isStandalone)
    THEN [win EXCEPT
            !.grid = @ \cup {[widget |-> "close", row |-> 1, column |-> 0,
                              padx |-> 10, pady |-> 3]},
            !.rowconf = Configure(@, 1, [weight |-> 0, minsize |-> 26])]
    ELSE win

\* a faulty variant of OpenNode: no row is ever opened
OpenNodeNever(newHierarchy) == FALSE

\* a faulty variant of OpenNode: every row is opened
OpenNodeAlways(newHierarchy) == TRUE

\* hierarchy.setter: "if len(newHierarchy) == 1: openNode = True"
OpenNode(newHierarchy) == Len(newHierarchy) = 1

RECURSIVE InsertChildRowsFlat(_, _, _, _)
\* a faulty variant of InsertChildRows: the child rows are inserted at the top level
InsertChildRowsFlat(tv, parentItem, vals, j) ==
    IF j > Len(vals) THEN tv
    ELSE InsertChildRowsFlat(Insert(tv, 0, vals[j].key, FALSE, <<vals[j].val>>),
                             parentItem, vals, j + 1)

RECURSIVE InsertChildRows(_, _, _, _)
\* hierarchy.setter: "for label, val in vals.items()", from the j-th entry on
InsertChildRows(tv, parentItem, vals, j) ==
    IF j > Len(vals) THEN tv
    ELSE InsertChildRows(Insert(tv, parentItem, vals[j].key, FALSE, <<vals[j].val>>),
                         parentItem, vals, j + 1)

RECURSIVE InsertRowsSkipEmpty(_, _, _)
\* a faulty variant of InsertRows: an entry without inner entries gets no row
InsertRowsSkipEmpty(tv, newHierarchy, i) ==
    IF i > Len(newHierarchy) THEN tv
    ELSE IF newHierarchy[i].val = <<>> THEN InsertRowsSkipEmpty(tv, newHierarchy, i + 1)
    ELSE LET parentItem == NewIid(tv)
             withParent == Insert(tv, 0, newHierarchy[i].key, OpenNode(newHierarchy), <<>>)
         IN  InsertRowsSkipEmpty(InsertChildRows(withParent, parentItem, newHierarchy[i].val, 1),
                                 newHierarchy, i + 1)

RECURSIVE InsertRows(_, _, _)
\* hierarchy.setter: "for key, vals in newHierarchy.items()", from the i-th entry on
InsertRows(tv, newHierarchy, i) ==
    IF i > Len(newHierarchy) THEN tv
    ELSE LET parentItem == NewIid(tv)
             withParent == Insert(tv, 0, newHierarchy[i].key, OpenNode(newHierarchy), <<>>)
         IN  InsertRows(InsertChildRows(withParent, parentItem, newHierarchy[i].val, 1),
                        newHierarchy, i + 1)

\* hierarchy.setter: delete every row, then insert the rows of newHierarchy
HierarchySetter(tv, newHierarchy) ==
    InsertRows(Delete(tv, GetChildren(tv, 0)), newHierarchy, 1)

\* a faulty variant of HierarchyGetter: the rows on display are handed back
HierarchyGetterStale(tv) == [raised |-> "", value |-> GetChildren(tv, 0)]

\* hierarchy (property getter): raise ValueError
HierarchyGetter(tv) == [raised |-> "ValueError", value |-> None]

\* DialogBase.onClose: self.parent.destroy() takes the window and every widget in it
Destroy(tkv, w) == [tkv EXCEPT ![w] = [@ EXCEPT !.alive = FALSE, !.grid = {}]]

NoResult == [raised |-> "", value |-> None]

NoCall ==
    [op |-> "none", parent |-> None, row |-> None, column |-> None,
     data |-> <<>>, result |-> NoResult, before |-> 0]

OptRows == {None} \cup { Some(r) : r \in Rows }

OptColumns == {None} \cup { Some(c) : c \in Columns }

OptParents == {None, Some("root")}

\* KeyValDialog(title, labels, parent, row, column)
NewKeyValDialog ==
    /\ phase = "none"
    /\ \E labels \in LabelValueMaps, p \in OptParents, row \in OptRows, column \in OptColumns :
        /\ phase' = "built"
        /\ kind' = "KeyVal"
        /\ standalone' = ~IsEmbedded(p, row, column)
        /\ parent' = ParentOf(p, row, column)
        /\ tk' = PlaceFrame(tk, p, row, column, "Key/Val Dialog")
        /\ frame' = KeyValBody(labels, standalone')
        /\ lastCall' = [NoCall EXCEPT !.op = "init", !.parent = p, !.row = row,
                                      !.column = column, !.data = labels]
        /\ UNCHANGED <<treeview, mainloop>>
        /\ UNCHANGED timerVars

\* TreeViewDialog(title, headings, hierarchy, parent, row, column)
NewTreeViewDialog ==
    /\ phase = "none"
    /\ \E hierarchy \in Hierarchies, p \in OptParents, row \in OptRows, column \in OptColumns :
        /\ phase' = "built"
        /\ kind' = "Tree"
        /\ standalone' = ~IsEmbedded(p, row, column)
        /\ parent' = ParentOf(p, row, column)
        /\ tk' = LET placed == PlaceFrame(tk, p, row, column, "TreeView Dialog")
                 IN  [placed EXCEPT ![parent'] = TreeBodyWindow(@, standalone')]
        /\ frame' = TreeBodyFrame
        /\ treeview' = HierarchySetter(TreeBodyTreeview(HeadingList), hierarchy)
        /\ lastCall' = [NoCall EXCEPT !.op = "init", !.parent = p, !.row = row,
                                      !.column = column, !.data = hierarchy]
        /\ UNCHANGED mainloop
        /\ UNCHANGED timerVars

\* dialog.hierarchy = newHierarchy
SetHierarchy ==
    /\ phase = "built"
    /\ kind = "Tree"
    /\ \E newHierarchy \in Hierarchies :
        /\ treeview' = HierarchySetter(treeview, newHierarchy)
        /\ lastCall' = [NoCall EXCEPT !.op = "set", !.data = newHierarchy,
                                      !.before = Len(GetChildren(treeview, 0))]
        /\ UNCHANGED <<tk, phase, kind, standalone, parent, frame, mainloop>>
        /\ UNCHANGED timerVars

\* dialog.hierarchy, read
GetHierarchy ==
    /\ phase \in {"built", "destroyed"}
    /\ kind = "Tree"
    /\ lastCall' = [NoCall EXCEPT !.op = "get", !.result = HierarchyGetter(treeview),
                                  !.data = lastCall.data,
                                  !.before = Len(GetChildren(treeview, 0))]
    /\ UNCHANGED <<tk, phase, kind, standalone, parent, frame, treeview, mainloop>>
    /\ UNCHANGED timerVars

\* DialogBase.run: self.parent.mainloop()
Run ==
    /\ phase = "built"
    /\ mainloop = ""
    /\ mainloop' = parent
    /\ lastCall' = [NoCall EXCEPT !.op = "run", !.data = lastCall.data]
    /\ UNCHANGED <<tk, phase, kind, standalone, parent, frame, treeview>>
    /\ UNCHANGED timerVars

\* the effect of DialogBase.onClose; mainloop() returns once its window is gone
OnCloseEffect(via) ==
    /\ tk' = Destroy(tk, parent)
    /\ phase' = "destroyed"
    /\ frame' = NoFrame
    /\ treeview' = NoTreeview
    /\ mainloop' = IF mainloop = parent THEN "" ELSE mainloop
    /\ lastCall' = [NoCall EXCEPT !.op = via, !.data = lastCall.data]
    /\ UNCHANGED <<kind, standalone, parent>>
    /\ UNCHANGED timerVars

\* dialog.onClose(), called by the program
OnClose ==
    /\ phase = "built"
    /\ OnCloseEffect("onClose")

\* the Close button pressed while the event loop of its window runs
ClickClose ==
    /\ phase = "built"
    /\ mainloop = parent
    /\ \/ \E c \in frame.cells : c.widget = "Button" /\ c.command = "onClose"
       \/ \E g \in tk[parent].grid : g.widget = "close"
    /\ OnCloseEffect("click")

----------------------------------------------------------------------------
(* Utils/Timer.py, and the with statement that drives it                   *)

\* f'{timeElapsed:.2f}': milliseconds to hundredths of a second, to the nearest
Fmt2f(ms) == IF ms >= 0 THEN (ms + 5) \div 10 ELSE -((5 - ms) \div 10)

\* Timer.__init__: the instance has a taskString and no startTime yet
NewTimer(taskString) ==
    [taskString |-> taskString, startTime |-> None, timeElapsed |-> None,
     excArg |-> None, pc |-> [method |-> "enter", at |-> 1]]

\* a faulty variant of EnterBody: the time is taken before the line is printed
EnterBodySwapped == <<"record", "print">>

\* Timer.__enter__, statement by statement
EnterBody == <<"print", "record">>

\* Timer.__exit__, statement by statement
ExitBody == <<"measure", "print">>

\* a faulty variant of ExitResult: __exit__ returns a true value
ExitResultTrue == TRUE

\* Timer.__exit__ returns None, which the with statement reads as false
ExitResult == FALSE

\* a faulty variant of RecordStart: the start time is kept in one place for all Timers
RecordStartShared(ts, i, now) ==
    [j \in DOMAIN ts |-> [ts[j] EXCEPT !.startTime = Some(now)]]

\* Timer.__enter__: self.startTime = time.time()
RecordStart(ts, i, now) == [ts EXCEPT ![i].startTime = Some(now)]

\* Timer.__exit__: timeElapsed = time.time() - self.startTime
Measure(ts, i, now) == [ts EXCEPT ![i].timeElapsed = Some(now - ts[i].startTime[1])]

\* print(f'{self.taskString}...')
StartLine(ts, i) ==
    [inst |-> i, kind |-> "start", taskString |-> ts[i].taskString, elapsed |-> 0]

\* print(f'{self.taskString} took {timeElapsed:.2f} seconds')
TookLine(ts, i) ==
    [inst |-> i, kind |-> "took", taskString |-> ts[i].taskString,
     elapsed |-> Fmt2f(ts[i].timeElapsed[1])]

Top == stack[Len(stack)]

At(method, statement) ==
    /\ stack # <<>>
    /\ timers[Top].pc.method = method
    /\ LET body == IF method = "enter" THEN EnterBody ELSE ExitBody
       IN  /\ timers[Top].pc.at \in 1..Len(body)
           /\ body[timers[Top].pc.at] = statement

\* the position after one more statement of the method the Timer is in
Advance(ts, i) ==
    LET body == IF ts[i].pc.method = "enter" THEN EnterBody ELSE ExitBody
    IN  IF ts[i].pc.at < Len(body)
        THEN [ts EXCEPT ![i].pc.at = @ + 1]
        ELSE [ts EXCEPT ![i].pc =
                [method |-> IF ts[i].pc.method = "enter" THEN "body" ELSE "return",
                 at |-> 0]]

\* time passes: the clock is read in steps of 4 ms, so that no elapsed time
\* lies halfway between two hundredths of a second
Tick ==
    /\ clock < 4 * MaxTicks
    /\ clock' = clock + 4
    /\ UNCHANGED <<timers, stack, stdout, exc, outcome>>
    /\ UNCHANGED dialogVars

\* "with Timer(taskString):", at the top level or inside the innermost open scope
WithTimer ==
    /\ outcome = None
    /\ exc = None
    /\ Len(timers) < MaxTimers
    /\ IF stack = <<>> THEN TRUE ELSE timers[Top].pc.method = "body"
    /\ \E taskString \in TaskStrings :
        /\ timers' = Append(timers, NewTimer(taskString))
        /\ stack' = Append(stack, Len(timers) + 1)
        /\ UNCHANGED <<clock, stdout, exc, outcome>>
        /\ UNCHANGED dialogVars

\* __enter__: print(f'{self.taskString}...')
EnterPrint ==
    /\ At("enter", "print")
    /\ stdout' = Append(stdout, StartLine(timers, Top))
    /\ timers' = Advance(timers, Top)
    /\ UNCHANGED <<stack, clock, exc, outcome>>
    /\ UNCHANGED dialogVars

\* __enter__: self.startTime = time.time()
EnterRecord ==
    /\ At("enter", "record")
    /\ timers' = Advance(RecordStart(timers, Top, clock), Top)
    /\ UNCHANGED <<stack, clock, stdout, exc, outcome>>
    /\ UNCHANGED dialogVars

\* the work inside the scope ends: __exit__(None, None, None) is called
BodyEnds ==
    /\ stack # <<>>
    /\ timers[Top].pc.method = "body"
    /\ exc = None
    /\ timers' = [timers EXCEPT ![Top].pc = [method |-> "exit", at |-> 1]]
    /\ UNCHANGED <<stack, clock, stdout, exc, outcome>>
    /\ UNCHANGED dialogVars

\* the work inside the scope raises e: __exit__(type(e), e, traceback) is called
BodyRaises ==
    /\ stack # <<>>
    /\ timers[Top].pc.method = "body"
    /\ exc = None
    /\ \E e \in Exceptions :
        /\ exc' = Some(e)
        /\ timers' = [timers EXCEPT ![Top].pc = [method |-> "exit", at |-> 1],
                                    ![Top].excArg = Some(e)]
        /\ UNCHANGED <<stack, clock, stdout, outcome>>
        /\ UNCHANGED dialogVars

\* __exit__: timeElapsed = time.time() - self.startTime
ExitMeasure ==
    /\ At("exit", "measure")
    /\ timers' = Advance(Measure(timers, Top, clock), Top)
    /\ UNCHANGED <<stack, clock, stdout, exc, outcome>>
    /\ UNCHANGED dialogVars

\* __exit__: print(f'{self.taskString} took {timeElapsed:.2f} seconds')
ExitPrint ==
    /\ At("exit", "print")
    /\ stdout' = Append(stdout, TookLine(timers, Top))
    /\ timers' = Advance(timers, Top)
    /\ UNCHANGED <<stack, clock, exc, outcome>>
    /\ UNCHANGED dialogVars

\* __exit__ returns and the with statement ends: an exception in flight is dropped
\* when __exit__ returned a true value, and otherwise goes on to the enclosing
\* scope (whose work it ends) or to the caller
ExitReturn ==
    /\ stack # <<>>
    /\ timers[Top].pc.method = "return"
    /\ LET i == Top
           rest == SubSeq(stack, 1, Len(stack) - 1)
           goesOn == exc # None /\ ~ExitResult
       IN  /\ stack' = rest
           /\ exc' = IF goesOn THEN exc ELSE None
           /\ outcome' = IF goesOn /\ rest = <<>> THEN exc ELSE outcome
           /\ timers' =
                IF goesOn /\ rest # <<>>
                THEN [timers EXCEPT
                        ![i].pc = [method |-> "done", at |-> 0],
                        ![rest[Len(rest)]].pc = [method |-> "exit", at |-> 1],
                        ![rest[Len(rest)]].excArg = exc]
                ELSE [timers EXCEPT ![i].pc = [method |-> "done", at |-> 0]]
    /\ UNCHANGED <<clock, stdout>>
    /\ UNCHANGED dialogVars

Init ==
    /\ tk = [w \in {"root", "win"} |-> IF w = "root" THEN CallerRoot ELSE NoWindow]
    /\ phase = "none"
    /\ kind = "none"
    /\ standalone = FALSE
    /\ parent = ""
    /\ frame = NoFrame
    /\ treeview = NoTreeview
    /\ mainloop = ""
    /\ lastCall = NoCall
    /\ timers = <<>>
    /\ stack = <<>>
    /\ clock = 0
    /\ stdout = <<>>
    /\ exc = None
    /\ outcome = None

Next ==
    \/ NewKeyValDialog
    \/ NewTreeViewDialog
    \/ SetHierarchy
    \/ GetHierarchy
    \/ Run
    \/ OnClose
    \/ ClickClose

Spec == Init /\ [][Next]_vars

NextTimer ==
    \/ Tick
    \/ WithTimer
    \/ EnterPrint
    \/ EnterRecord
    \/ BodyEnds
    \/ BodyRaises
    \/ ExitMeasure
    \/ ExitPrint
    \/ ExitReturn

SpecTimer == Init /\ [][NextTimer]_vars

----------------------------------------------------------------------------
(* Properties of the dialogs                                               *)

\* the rows on display, read back from the widget in display order
Rendered(tv) ==
    LET top == GetChildren(tv, 0)
    IN  [i \in 1..Len(top) |->
            [text |-> tv.items[top[i]].text,
             rows |-> [j \in 1..Len(GetChildren(tv, top[i])) |->
                        [text |-> tv.items[GetChildren(tv, top[i])[j]].text,
                         values |-> tv.items[GetChildren(tv, top[i])[j]].values]]]]

\* the rows a Hierarchy describes
Described(h) ==
    [i \in 1..Len(h) |->
        [text |-> h[i].key,
         rows |-> [j \in 1..Len(h[i].val) |->
                    [text |-> h[i].val[j].key, values |-> <<h[i].val[j].val>>]]]]

RECURSIVE NumRows(_, _)
NumRows(h, i) == IF i > Len(h) THEN 0 ELSE 1 + Len(h[i].val) + NumRows(h, i + 1)

Populated == kind = "Tree" /\ lastCall.op \in {"init", "set"}

\* C1: the dialog is Embedded (no window created, gridded into the caller's
\* container at (row, column)) exactly when parent, row and column are all
\* given, 0 counting as given, and Standalone (a window of its own) otherwise
C1_ModeSelection ==
    lastCall.op = "init" =>
        IF lastCall.parent # None /\ lastCall.row # None /\ lastCall.column # None
        THEN /\ ~standalone
             /\ parent = lastCall.parent[1]
             /\ ~tk["win"].exists
             /\ { <<g.row, g.column>> : g \in { x \in tk[parent].grid : x.widget = "dialog" } }
                    = { <<lastCall.row[1], lastCall.column[1]>> }
        ELSE /\ standalone
             /\ parent = "win"
             /\ tk["win"].exists /\ tk["win"].alive
             /\ \E g \in tk["win"].grid : g.widget = "dialog"
             /\ \A g \in tk["root"].grid : g.widget # "dialog"

C1_Witness ==
    /\ lastCall.op = "init"
    /\ lastCall.parent = Some("root") /\ lastCall.row = Some(0) /\ lastCall.column = Some(0)
    /\ ~standalone
    /\ ~tk["win"].exists

\* C2: an Embedded dialog never destroys the caller's container or the other
\* widgets in it, whatever is called on it; the only window a dialog ever
\* destroys is the one a Standalone dialog created
C2_EmbeddedNeverDestroysParent ==
    /\ (kind # "none" /\ ~standalone) =>
            /\ tk["root"].alive
            /\ \E g \in tk["root"].grid : g.widget = "other"
    /\ \A w \in DOMAIN tk : (tk[w].exists /\ ~tk[w].alive) => (w = "win" /\ standalone)

\* C3: after the constructor and after every replacement the rows on display
\* are exactly the rows of the hierarchy assigned last: none left over from an
\* earlier hierarchy, none twice
C3_ReplaceLeavesExactlyNewRows ==
    Populated =>
        /\ Rendered(treeview) = Described(lastCall.data)
        /\ Cardinality(DOMAIN treeview.items) = NumRows(lastCall.data, 1)

C3_Witness ==
    /\ Populated
    /\ lastCall.op = "set"
    /\ lastCall.before = 2
    /\ Len(lastCall.data) = 1
    /\ Len(GetChildren(treeview, 0)) = 1

C4_ReadFails ==
    lastCall.op = "get" =>
        /\ lastCall.result.raised = "ValueError"
        /\ lastCall.result.value = None

C4_ReadChangesNothing ==
    lastCall'.op = "get" => (treeview' = treeview /\ frame' = frame /\ tk' = tk)

\* C4: reading the hierarchy property raises ValueError in every state after
\* construction, hands back no value, and leaves the rows and their expansion
\* state as they were
C4_ReadAlwaysFails == []C4_ReadFails /\ [][C4_ReadChangesNothing]_vars

C4_Witness ==
    /\ lastCall.op = "get"
    /\ lastCall.result.raised = "ValueError"
    /\ Len(GetChildren(treeview, 0)) = 2

\* C6: the i-th entry of the map is at grid row i, label in column 0 and value
\* in column 1, one row per entry; a Close button wired to onClose exists iff
\* the dialog is Standalone, and sits at row n
C6_KeyValRows ==
    (kind = "KeyVal" /\ lastCall.op = "init") =>
        LET M == lastCall.data
            n == Len(M)
            labels == { c \in frame.cells : c.widget = "Label" }
            buttons == { c \in frame.cells : c.widget = "Button" }
        IN  /\ \A i \in 0..(n - 1) :
                /\ { c.text : c \in { x \in labels : x.row = i /\ x.column = 0 } }
                        = { M[i + 1].key }
                /\ { c.text : c \in { x \in labels : x.row = i /\ x.column = 1 } }
                        = { M[i + 1].val }
            /\ Cardinality(labels) = 2 * n
            /\ { c.row : c \in frame.cells } =
                    IF standalone THEN 0..n ELSE 0..(n - 1)
            /\ IF standalone
               THEN /\ Cardinality(buttons) = 1
                    /\ \A b \in buttons :
                        b.row = n /\ b.text = "Close" /\ b.command = "onClose"
               ELSE buttons = {}

C6_Witness ==
    /\ kind = "KeyVal" /\ lastCall.op = "init"
    /\ standalone
    /\ lastCall.data = <<>>
    /\ \E c \in frame.cells : c.widget = "Button" /\ c.row = 0

\* C7: the top-level rows carry the outer keys in outer insertion order; under
\* each, the child rows carry that key's inner labels in inner insertion order,
\* each with its mapped value; every child row hangs under its own outer key
C7_PopulationOrder ==
    Populated =>
        LET H == lastCall.data
            top == GetChildren(treeview, 0)
        IN  /\ Len(top) = Len(H)
            /\ \A i \in 1..Len(H) :
                LET rows == GetChildren(treeview, top[i])
                IN  /\ treeview.items[top[i]].text = H[i].key
                    /\ treeview.items[top[i]].parent = 0
                    /\ Len(rows) = Len(H[i].val)
                    /\ \A j \in 1..Len(rows) :
                        /\ treeview.items[rows[j]].text = H[i].val[j].key
                        /\ treeview.items[rows[j]].values = <<H[i].val[j].val>>
                        /\ treeview.items[rows[j]].parent = top[i]
            /\ \A x \in DOMAIN treeview.items :
                treeview.items[x].parent # 0 =>
                    \E i \in 1..Len(top) :
                        /\ treeview.items[x].parent = top[i]
                        /\ \E j \in 1..Len(H[i].val) :
                            /\ GetChildren(treeview, top[i])[j] = x
                            /\ H[i].val[j].key = treeview.items[x].text

C7_Witness ==
    /\ Populated
    /\ Len(lastCall.data) = 2
    /\ Len(lastCall.data[1].val) = 2
    /\ Len(lastCall.data[2].val) = 2
    /\ Len(GetChildren(treeview, GetChildren(treeview, 0)[1])) = 2

\* C8: a hierarchy with exactly one top-level entry has that row inserted open;
\* one with two or more has every top-level row inserted collapsed; the rows
\* on display before the assignment play no part
C8_ExpansionPolicy ==
    Populated =>
        LET top == GetChildren(treeview, 0)
        IN  /\ Len(top) = Len(lastCall.data)
            /\ \A i \in 1..Len(top) :
                treeview.items[top[i]].open = (Len(lastCall.data) = 1)

C8_Witness ==
    /\ Populated
    /\ lastCall.op = "set"
    /\ lastCall.before = 1
    /\ Len(lastCall.data) = 2
    /\ \A i \in 1..2 : ~treeview.items[GetChildren(treeview, 0)[i]].open

\* the top-level rows of the entries without inner entries
ChildlessRows ==
    { i \in 1..Len(lastCall.data) : lastCall.data[i].val = <<>> }

\* C9 as stated: an outer key with an empty inner mapping is displayed as a
\* top-level row without child rows, and that row is collapsed, also when it
\* is the only top-level entry
C9_ChildlessCollapsed ==
    Populated =>
        \A i \in ChildlessRows :
            LET top == GetChildren(treeview, 0)
            IN  /\ i <= Len(top)
                /\ treeview.items[top[i]].text = lastCall.data[i].key
                /\ GetChildren(treeview, top[i]) = <<>>
                /\ ~treeview.items[top[i]].open

\* C9 amended: an outer key with an empty inner mapping is displayed as a
\* top-level row without child rows; the row is collapsed when the hierarchy
\* has two or more top-level entries and open when it is the only entry
C9_ChildlessDisplayed ==
    Populated =>
        \A i \in ChildlessRows :
            LET top == GetChildren(treeview, 0)
            IN  /\ i <= Len(top)
                /\ treeview.items[top[i]].text = lastCall.data[i].key
                /\ GetChildren(treeview, top[i]) = <<>>
                /\ treeview.items[top[i]].open = (Len(lastCall.data) = 1)

C9_Witness ==
    /\ Populated
    /\ Len(lastCall.data) = 1
    /\ ChildlessRows = {1}
    /\ Len(GetChildren(treeview, 0)) = 1
    /\ treeview.items[GetChildren(treeview, 0)[1]].open

----------------------------------------------------------------------------
(* Properties of the Timer                                                 *)

\* the positions in stdout of the lines of one kind printed by Timer i
LinesOf(i, k) == { n \in 1..Len(stdout) : stdout[n].inst = i /\ stdout[n].kind = k }

Exited(i) == timers[i].pc.method \in {"return", "done"}

\* every scope that was left printed its completion line once, the others not yet
C5_OneCompletionPerExit ==
    \A i \in DOMAIN timers :
        /\ Cardinality(LinesOf(i, "took")) = IF Exited(i) THEN 1 ELSE 0
        /\ \A n \in LinesOf(i, "took") : stdout[n].taskString = timers[i].taskString

\* an exception a scope was left with is still unwinding or has reached the
\* caller, and it is the exception that was raised
C5_FailurePropagates ==
    \A i \in DOMAIN timers :
        (timers[i].pc.method = "done" /\ timers[i].excArg # None) =>
            /\ exc = timers[i].excArg \/ outcome = timers[i].excArg
            /\ \A j \in DOMAIN timers : timers[j].excArg \in {None, timers[i].excArg}

\* when the failure reaches the caller every scope has printed its completion
C5_NotifiedBeforeCaller ==
    outcome # None =>
        \A i \in DOMAIN timers : Exited(i) /\ Cardinality(LinesOf(i, "took")) = 1

\* C5: every scope entered emits exactly one completion line when it exits,
\* whether the work ended or raised; when it raised, the line is printed first
\* and the original exception then goes on to the caller unchanged
C5_ExitNotifiesAndPropagates ==
    /\ C5_OneCompletionPerExit
    /\ C5_FailurePropagates
    /\ C5_NotifiedBeforeCaller

C5_Witness ==
    /\ Len(timers) = 2
    /\ outcome = Some("OSError")
    /\ timers[2].excArg = Some("OSError")
    /\ timers[1].excArg = Some("OSError")
    /\ Len(stdout) = 4
    /\ stdout[3].kind = "took" /\ stdout[3].inst = 2
    /\ stdout[4].kind = "took" /\ stdout[4].inst = 1

\* each scope prints its starting line once on entry and its completion line
\* once on exit, in this order, each with the label of its own instance
C10_TwoLines ==
    \A i \in DOMAIN timers :
        /\ Cardinality(LinesOf(i, "start")) <= 1
        /\ timers[i].pc.method # "enter" => Cardinality(LinesOf(i, "start")) = 1
        /\ Cardinality(LinesOf(i, "took")) = IF Exited(i) THEN 1 ELSE 0
        /\ \A n \in LinesOf(i, "start"), m \in LinesOf(i, "took") : n < m
        /\ \A n \in 1..Len(stdout) :
            stdout[n].inst = i => stdout[n].taskString = timers[i].taskString

\* the start time is recorded only after the starting line is out
C10_StartAfterLine ==
    \A i \in DOMAIN timers : timers[i].startTime # None => LinesOf(i, "start") # {}

\* the lines of two scopes never interleave: a scope opened inside another
\* completes before the outer one does
C10_WellNested ==
    \A i, j \in DOMAIN timers :
        \A si \in LinesOf(i, "start"), sj \in LinesOf(j, "start") :
            si < sj =>
                \A ti \in LinesOf(i, "took") :
                    \/ ti < sj
                    \/ \E tj \in LinesOf(j, "took") : tj < ti

\* the completion line shows the elapsed time this instance measured
C10_OwnElapsed ==
    \A i \in DOMAIN timers :
        \A n \in LinesOf(i, "took") :
            /\ timers[i].timeElapsed # None
            /\ stdout[n].elapsed = Fmt2f(timers[i].timeElapsed[1])

\* a recorded start is never changed by a step of another Timer, and the
\* elapsed time is measured from the instance's own recorded start
C10_StartIsOwn ==
    \A i \in DOMAIN timers :
        /\ (timers[i].startTime # None /\ (stack = <<>> \/ Top # i)) =>
                timers'[i].startTime = timers[i].startTime
        /\ (timers[i].timeElapsed = None /\ timers'[i].timeElapsed # None) =>
                /\ timers[i].startTime # None
                /\ timers'[i].timeElapsed = Some(clock - timers[i].startTime[1])

\* C10: each scope prints exactly two lines, the starting line before the work
\* and the completion line after it, and records its start after the starting
\* line; nested scopes are well nested, each completion carries its own label
\* and an elapsed time measured from its own start, and a step of an inner
\* Timer never changes the start of an outer one
C10_NestedTimers ==
    /\ [](C10_TwoLines /\ C10_StartAfterLine /\ C10_WellNested /\ C10_OwnElapsed)
    /\ [][C10_StartIsOwn]_vars

C10_Witness ==
    /\ Len(timers) = 2
    /\ timers[1].pc.method = "done" /\ timers[2].pc.method = "done"
    /\ outcome = None
    /\ timers[1].taskString # timers[2].taskString
    /\ timers[1].startTime = Some(0) /\ timers[2].startTime = Some(4)
    /\ [n \in 1..4 |-> <<stdout[n].inst, stdout[n].kind>>]
            = << <<1, "start">>, <<2, "start">>, <<2, "took">>, <<1, "took">> >>
    /\ stdout[4].elapsed = 1 /\ stdout[3].elapsed = 0

====
